---- MODULE Spec2Model ----
(***************************************************************************)
(* A model of planet_chart.py: the configuration checks, the time-zone     *)
(* offset, the observer, the calendar loop, get_planet_times with          *)
(* get_body_rise / get_body_set, the twilight pass and the axis set-up.    *)
(*                                                                         *)
(* Numbers.  Angles are integers in micro-degrees (Deg = one degree), so   *)
(* the six-decimal literals of the source are exact.  Hours of day are     *)
(* integers in units of 1/Sub hour, and a raw ephemeris day number is an   *)
(* integer in units of 1/(24*Sub) day.  The interpreter is the one the     *)
(* source names in its header (Python 2.7): `/` between two ints is floor  *)
(* division, between floats true division; None orders below every number. *)
(***************************************************************************)
EXTENDS Integers, Sequences, FiniteSets, TLC

\* ------------------------------------------------------------ bounds
\* Sub-hour resolution of the modelled floating-point hours.
Sub == 2
\* Longest `times` argument of a stand-alone get_planet_times call.
MaxDays == 2

\* ------------------------------------------------------------ units
Deg == 1000000
DayUnits == 24 * Sub
H(n) == n * Sub

\* ------------------------------------------------------------ configuration
DefaultLatitude == 43475085
DefaultLongitude == -80552901
DefaultYear == 2017

\* A Python number of the configuration: its value and whether the literal is
\* an int (which decides what `/` does under Python 2).
PyFloat(v) == [v |-> v, isInt |-> FALSE]
PyInt(d) == [v |-> d * Deg, isInt |-> TRUE]

\* Optional values: a Python float, or None.
None == <<>>
Some(v) == <<v>>

days_in_month == <<31, 28, 31, 30, 31, 30, 31, 31, 30, 31, 30, 31>>

Bodies == <<"Sun", "Mercury", "Venus", "Mars", "Jupiter", "Saturn", "Uranus", "Neptune">>

VARIABLES
    pc,                 \* position in the main program
    latitude, longitude, year,
    time_diff,
    observing_site,     \* the ephem.Observer
    horizon_writes,     \* history: assignments to observing_site.horizon after construction
    count, month, cumulative_days, time_array,
    ephem,              \* the ephemeris the queries are answered from
    call,               \* which get_planet_times call is running (0: a stand-alone call)
    body, midnight, noon, i, body_rise_times, body_set_times,
    queries,            \* the ephemeris queries of the latest loop iteration
    series,             \* the returned (rise, set) masked arrays, in call order
    xlim, x_inverted, saved

vars == <<pc, latitude, longitude, year, time_diff, observing_site, horizon_writes,
          count, month, cumulative_days, time_array, ephem, call, body, midnight,
          noon, i, body_rise_times, body_set_times, queries, series, xlim,
          x_inverted, saved>>

\* ------------------------------------------------------------ Python arithmetic
\* A quotient rounded toward minus infinity instead.
FloorOfQuotient(n, d) == n \div d

\* int(x) of a quotient n/d (d > 0): truncation toward zero.
PyIntOfQuotient(n, d) == IF n >= 0 THEN n \div d ELSE -((-n) \div d)

\* longitude / 15 followed by int(): floor division for two ints (Python 2),
\* true division then truncation for a float.
TimeDiffOf(lon) ==
    IF lon.isInt THEN lon.v \div (15 * Deg)
    ELSE PyIntOfQuotient(lon.v, 15 * Deg)

\* Python 2 ordering of an optional sample against a number.
PyLess(a, b) == IF a = None THEN TRUE ELSE a[1] < b
PyGreater(a, b) == IF a = None THEN FALSE ELSE a[1] > b

\* ------------------------------------------------------------ ephemeris
\* What obs.next_rising / next_setting yields: a day number with fraction
\* (triple()[2]), or a failure.
Failure == [ok |-> FALSE, x |-> 0]
Event(x) == [ok |-> TRUE, x |-> x]

KindIndex(kind) == IF kind = "rise" THEN 0 ELSE 1

BodyIndex(b) == CHOOSE n \in 1..Len(Bodies) : Bodies[n] = b

\* A deterministic ephemeris of phase k: over the days of a year every time of
\* day and the failure occur for every body, horizon and kind of event.
PhaseResult(k, b, hz, day, index, kind) ==
    LET n == DayUnits + 1
        t == (k + index + 5 * BodyIndex(b) + 11 * KindIndex(kind)
                + (IF hz = 0 THEN 0 ELSE 3)) % n
    IN  IF t = DayUnits THEN Failure
        ELSE Event((day[3] + (t % 2)) * DayUnits + t)

EphemResult(b, hz, day, index, kind) ==
    IF ephem.mode = "table" THEN ephem.tab[index][kind]
    ELSE PhaseResult(ephem.k, b, hz, day, index, kind)

\* ------------------------------------------------------------ the normalizers
\* (x - floor(x)) * 24., in units of 1/Sub hour.
HourOfDay(x) == (x - (x \div DayUnits) * DayUnits)

\* get_body_rise with >= in the comparison of line 69.
get_body_rise_at_or_after(result, noon_arg) ==
    IF ~result.ok THEN None
    ELSE LET rising == HourOfDay(result.x)
         IN  IF rising >= noon_arg THEN Some(rising - H(24)) ELSE Some(rising)

\* get_body_rise, given what obs.next_rising(planet) yields.
get_body_rise(result, noon_arg) ==
    IF ~result.ok THEN None
    ELSE LET rising == HourOfDay(result.x)
         IN  IF rising > noon_arg THEN Some(rising - H(24)) ELSE Some(rising)

\* get_body_set, given what obs.next_setting(planet) yields.
get_body_set(result, min_time) ==
    IF ~result.ok THEN None
    ELSE LET setting == HourOfDay(result.x)
         IN  IF setting > min_time THEN Some(setting - H(24)) ELSE Some(setting)

\* masked_outside taking (v1, v2) as (lower, upper) without ordering them.
masked_outside_unordered(x, v1, v2) ==
    [data |-> x,
     mask |-> [j \in 1..Len(x) |-> PyLess(x[j], v1) \/ PyGreater(x[j], v2)]]

\* numpy.ma.masked_outside(x, v1, v2): the bounds in either order; an entry is
\* masked when it is below the lower or above the upper bound; data and length
\* are kept.
masked_outside(x, v1, v2) ==
    LET lo == IF v2 < v1 THEN v2 ELSE v1
        hi == IF v2 < v1 THEN v1 ELSE v2
    IN  [data |-> x,
         mask |-> [j \in 1..Len(x) |-> PyLess(x[j], lo) \/ PyGreater(x[j], hi)]]

\* Lines 45-46: local midnight and local noon in UTC hours.
Midnight(time_difference) == H(-time_difference)
Noon(time_difference) == H((-time_difference + 12) % 24)

\* The set events referred to local midnight instead.
MidnightReference(noon_, midnight_) == midnight_

\* The reference get_planet_times hands to get_body_rise (line 53) and to
\* get_body_set (line 54), of its locals noon and midnight.
RiseReference(noon_, midnight_) == noon_
SetReference(noon_, midnight_) == noon_

\* The bounds get_planet_times hands to masked_outside (line 57).
MaskV1(midnight_) == midnight_ + H(10)
MaskV2(midnight_) == midnight_ - H(10)

\* ------------------------------------------------------------ initial states
NoObserver == [built |-> FALSE, pressure |-> 0, horizon |-> 0, lat |-> 0, lon |-> 0,
               date |-> <<>>]

Longitudes ==
    { PyFloat(DefaultLongitude), PyFloat(-180 * Deg), PyFloat(-180 * Deg + Deg \div 2),
      PyFloat(-172 * Deg), PyFloat(-165 * Deg), PyFloat(-15 * Deg),
      PyFloat(-15 * Deg + Deg \div 2), PyFloat(-7 * Deg), PyFloat(-(Deg \div 2)),
      PyFloat(0), PyFloat(Deg \div 2), PyFloat(7 * Deg), PyFloat(15 * Deg),
      PyFloat(30 * Deg - Deg \div 2), PyFloat(172 * Deg), PyFloat(180 * Deg - Deg \div 2),
      PyFloat(180 * Deg),
      PyFloat(-180 * Deg - 1), PyFloat(180 * Deg + 1), PyFloat(181 * Deg),
      PyInt(-180), PyInt(-179), PyInt(-170), PyInt(-166), PyInt(-165), PyInt(-80),
      PyInt(-15), PyInt(-14), PyInt(-10), PyInt(-1), PyInt(0), PyInt(10), PyInt(180),
      PyInt(181), PyInt(-181) }

Latitudes ==
    { DefaultLatitude, -90 * Deg, 90 * Deg, -91 * Deg, 91 * Deg, 90 * Deg + 1,
      -90 * Deg - 1 }

\* The configurations of a run: every longitude at the default latitude, every
\* latitude at the default longitude, and one with both out of range.
Configurations ==
    { <<DefaultLatitude, lon, DefaultYear>> : lon \in Longitudes }
    \cup { <<lat, PyFloat(DefaultLongitude), DefaultYear>> : lat \in Latitudes }
    \cup { <<DefaultLatitude, PyFloat(DefaultLongitude), DefaultYear - 1>>,
           <<91 * Deg, PyFloat(181 * Deg), DefaultYear>> }

Phase(k) == [mode |-> "phase", k |-> k, tab |-> <<>>]

InitCommon ==
    /\ horizon_writes = 0
    /\ count = 0 /\ month = 1 /\ cumulative_days = 0
    /\ body = "" /\ midnight = 0 /\ noon = 0 /\ i = 0
    /\ body_rise_times = <<>> /\ body_set_times = <<>>
    /\ queries = <<>> /\ series = <<>>
    /\ xlim = <<>> /\ x_inverted = FALSE /\ saved = FALSE

Init ==
    /\ pc = "normalize"
    /\ \E c \in Configurations : latitude = c[1] /\ longitude = c[2] /\ year = c[3]
    /\ time_diff = 0
    /\ observing_site = NoObserver
    /\ time_array = <<>>
    /\ ephem = Phase(0)
    /\ call = 0
    /\ InitCommon

\* ------------------------------------------------------------ main program
\* Lines 93-94.
NormalizeLongitude ==
    /\ pc = "normalize"
    /\ longitude' = IF longitude.v = -180 * Deg THEN PyFloat(180 * Deg) ELSE longitude
    /\ pc' = "validate"
    /\ UNCHANGED <<latitude, year, time_diff, observing_site, horizon_writes, count, month,
                   cumulative_days, time_array, ephem, call, body, midnight, noon, i,
                   body_rise_times, body_set_times, queries, series, xlim, x_inverted, saved>>

\* The latitude checked against the bounds its error message names.
LatitudeOutOfLongitudeBounds == -180 * Deg > latitude \/ latitude > 180 * Deg

LongitudeOutOfBounds == -180 * Deg > longitude.v \/ longitude.v > 180 * Deg
LatitudeOutOfBounds == -90 * Deg > latitude \/ latitude > 90 * Deg

\* Lines 97-100: either raise ValueError, which ends the run.
Validate ==
    /\ pc = "validate"
    /\ pc' = IF LongitudeOutOfBounds \/ LatitudeOutOfBounds THEN "ValueError"
             ELSE "time_diff"
    /\ UNCHANGED <<latitude, longitude, year, time_diff, observing_site, horizon_writes,
                   count, month, cumulative_days, time_array, ephem, call, body, midnight,
                   noon, i, body_rise_times, body_set_times, queries, series, xlim,
                   x_inverted, saved>>

\* Line 103.
ComputeTimeDiff ==
    /\ pc = "time_diff"
    /\ time_diff' = TimeDiffOf(longitude)
    /\ pc' = "observer"
    /\ UNCHANGED <<latitude, longitude, year, observing_site, horizon_writes, count, month,
                   cumulative_days, time_array, ephem, call, body, midnight, noon, i,
                   body_rise_times, body_set_times, queries, series, xlim, x_inverted, saved>>

\* Lines 106-110 (and the body handles of 113-120, which hold no state here).
CreateObserver ==
    /\ pc = "observer"
    /\ observing_site' = [built |-> TRUE, pressure |-> 0, horizon |-> 0,
                          lat |-> latitude, lon |-> longitude.v, date |-> <<>>]
    /\ pc' = "calendar"
    /\ UNCHANGED <<latitude, longitude, year, time_diff, horizon_writes, count, month,
                   cumulative_days, time_array, ephem, call, body, midnight, noon, i,
                   body_rise_times, body_set_times, queries, series, xlim, x_inverted, saved>>

\* The date key str(year) + '/' + str(month) + '/' + two-digit day, as the three
\* numbers it spells (lines 138-141: both branches spell the same day).
DateKey(y, m, d) == <<y, m, d>>

\* Lines 123-128.
StartCalendar ==
    /\ pc = "calendar"
    /\ count' = 0 /\ month' = 1 /\ cumulative_days' = 0 /\ time_array' = <<>>
    /\ pc' = "calendar_loop"
    /\ UNCHANGED <<latitude, longitude, year, time_diff, observing_site, horizon_writes,
                   ephem, call, body, midnight, noon, i, body_rise_times, body_set_times,
                   queries, series, xlim, x_inverted, saved>>

\* The guard without its count > 1 conjunct.
MonthEndsAlsoAtStart(cnt, cum, m) ==
    LET time == cnt * 24 * 60
    IN  ((time \div 60) \div 24 - cum) % days_in_month[m] = 0

\* The guard of line 132.
MonthEnds(cnt, cum, m) ==
    LET time == cnt * 24 * 60
    IN  ((time \div 60) \div 24 - cum) % days_in_month[m] = 0 /\ cnt > 1

\* Lines 129-142: one iteration of the while loop (current_year == year always holds;
\* the loop ends at the break of line 137).
CalendarStep ==
    /\ pc = "calendar_loop"
    /\ LET time == count * 24 * 60
           day0 == (((time \div 60) \div 24 - cumulative_days) % days_in_month[month]) + 1
           roll == MonthEnds(count, cumulative_days, month)
           cum1 == IF roll THEN cumulative_days + days_in_month[month] ELSE cumulative_days
           month1 == IF roll THEN month + 1 ELSE month
           day == IF roll THEN 1 ELSE day0
       IN  /\ cumulative_days' = cum1
           /\ month' = month1
           /\ IF month1 > 12
              THEN /\ pc' = "series"
                   /\ UNCHANGED <<time_array, count>>
              ELSE /\ time_array' = Append(time_array, DateKey(year, month1, day))
                   /\ count' = count + 1
                   /\ pc' = pc
    /\ UNCHANGED <<latitude, longitude, year, time_diff, observing_site, horizon_writes,
                   ephem, call, body, midnight, noon, i, body_rise_times, body_set_times,
                   queries, series, xlim, x_inverted, saved>>

\* ------------------------------------------------------------ get_planet_times
\* The horizon changed one call early.
OneCallEarly == Len(Bodies) - 1

\* Number of get_planet_times calls made before the horizon is changed (lines 145-152).
OrdinaryCalls == Len(Bodies)

\* The body of the n-th call of the main program (lines 145-152 and 156).
BodyOfCall(n) == IF n <= OrdinaryCalls THEN Bodies[n] ELSE "Sun"

Query(c, b, kind, site, time, index) ==
    [call |-> c, body |-> b, kind |-> kind, horizon |-> site.horizon,
     date |-> site.date, time |-> time, index |-> index]

\* A failed query adding nothing to the list.
DropsAbsent == FALSE

\* Whether a failed query still adds its (absent) sample to the list (the bare
\* return of lines 67 and 82 yields None, which lines 53-54 append).
AppendsAbsent == TRUE

AppendSample(list, sample) ==
    IF sample = None /\ ~AppendsAbsent THEN list ELSE Append(list, sample)

\* The locals of a running get_planet_times call that its loop changes.
Locals(site, rise, set, qs) == [site |-> site, rise |-> rise, set |-> set, queries |-> qs]

\* Lines 51-54 with 61-72 and 76-87: the loop body for the day at `index`, in call
\* c for body b.  The observer's date is set to the day (lines 52, 62, 77) before
\* each query.
Iteration(st, index, c, b, noon_, midnight_) ==
    LET time == time_array[index]
        site == [st.site EXCEPT !.date = time]
        rising == EphemResult(b, site.horizon, time, index, "rise")
        setting == EphemResult(b, site.horizon, time, index, "set")
    IN  Locals(site,
               AppendSample(st.rise, get_body_rise(rising, RiseReference(noon_, midnight_))),
               AppendSample(st.set, get_body_set(setting, SetReference(noon_, midnight_))),
               st.queries \o <<Query(c, b, "rise", site, time, index),
                               Query(c, b, "set", site, time, index)>>)

\* The loop of lines 51-54 over the days first..last in order.  The range is
\* split in halves, and the first half is evaluated (its queries counted) before
\* the second starts, only to keep the evaluation shallow.
RECURSIVE RunLoop(_, _, _, _, _, _, _)
RunLoop(st, first, last, c, b, noon_, midnight_) ==
    IF first > last THEN st
    ELSE IF first = last THEN Iteration(st, first, c, b, noon_, midnight_)
    ELSE LET half == (first + last) \div 2
             done == RunLoop(st, first, half, c, b, noon_, midnight_)
         IN  IF Len(done.queries) >= 0
             THEN RunLoop(done, half + 1, last, c, b, noon_, midnight_)
             ELSE done

\* Line 57: both lists as masked arrays.
Returned(rise, set, midnight_) ==
    [rise |-> masked_outside(rise, MaskV1(midnight_), MaskV2(midnight_)),
     set |-> masked_outside(set, MaskV1(midnight_), MaskV2(midnight_))]

\* Where the main program continues after its call n returns.
AfterCall(n) ==
    IF n < OrdinaryCalls THEN "series"
    ELSE IF n = OrdinaryCalls THEN "twilight"
    ELSE "axes"

\* Lines 145-152 and 156: the next call of the main program, from its entry
\* (lines 45-50) through its loop to its return (line 57).
CallGetPlanetTimes ==
    /\ pc = "series"
    /\ LET c == call + 1
           b == BodyOfCall(c)
           st == RunLoop(Locals(observing_site, <<>>, <<>>, <<>>), 1, Len(time_array), c, b,
                         Noon(time_diff), Midnight(time_diff))
       IN  /\ call' = c
           /\ body' = b
           /\ midnight' = Midnight(time_diff)
           /\ noon' = Noon(time_diff)
           /\ i' = Len(time_array) + 1
           /\ observing_site' = st.site
           /\ body_rise_times' = st.rise
           /\ body_set_times' = st.set
           /\ queries' = st.queries
           /\ series' = Append(series, Returned(st.rise, st.set, Midnight(time_diff)))
           /\ pc' = AfterCall(c)
    /\ UNCHANGED <<latitude, longitude, year, time_diff, horizon_writes, count, month,
                   cumulative_days, time_array, ephem, xlim, x_inverted, saved>>

\* Line 155, then the call of line 156.
SetTwilightHorizon ==
    /\ pc = "twilight"
    /\ observing_site' = [observing_site EXCEPT !.horizon = -18]
    /\ horizon_writes' = horizon_writes + 1
    /\ pc' = "series"
    /\ UNCHANGED <<latitude, longitude, year, time_diff, count, month, cumulative_days,
                   time_array, ephem, call, body, midnight, noon, i, body_rise_times,
                   body_set_times, queries, series, xlim, x_inverted, saved>>

\* ------------------------------------------------------------ axes and output
\* Lines 190-193: the limits handed to set_xlim, (left, right).
XLimits(td) ==
    IF -td > 0 THEN <<-td - 10, -td + 10>> ELSE <<-td + 10, -td - 10>>

\* Line 195.
InvertsAxis(lon) == lon.v > -15 * Deg

\* invert_xaxis(): the two limits change places.
Inverted(lim) == <<lim[2], lim[1]>>

\* Lines 189-196.
FormatAxes ==
    /\ pc = "axes"
    /\ xlim' = IF InvertsAxis(longitude) THEN Inverted(XLimits(time_diff))
               ELSE XLimits(time_diff)
    /\ x_inverted' = InvertsAxis(longitude)
    /\ pc' = "save"
    /\ UNCHANGED <<latitude, longitude, year, time_diff, observing_site, horizon_writes,
                   count, month, cumulative_days, time_array, ephem, call, body, midnight,
                   noon, i, body_rise_times, body_set_times, queries, series, saved>>

\* Line 216.
SaveFigure ==
    /\ pc = "save"
    /\ saved' = TRUE
    /\ pc' = "done"
    /\ UNCHANGED <<latitude, longitude, year, time_diff, observing_site, horizon_writes,
                   count, month, cumulative_days, time_array, ephem, call, body, midnight,
                   noon, i, body_rise_times, body_set_times, queries, series, xlim,
                   x_inverted>>

Next ==
    \/ NormalizeLongitude
    \/ Validate
    \/ ComputeTimeDiff
    \/ CreateObserver
    \/ StartCalendar
    \/ CalendarStep
    \/ CallGetPlanetTimes
    \/ SetTwilightHorizon
    \/ FormatAxes
    \/ SaveFigure

Spec == Init /\ [][Next]_vars

\* ------------------------------------------------------------ stand-alone calls
\* get_planet_times(body, times, obs, time_difference) called on its own: any of
\* these offsets, the first n days of the year, and every pattern of outcomes of
\* the n rise and n set queries.
SeriesOffsets == {-11, -5, 0, 12}
SeriesBodies == {"Sun", "Mars"}
FreeOutcomes ==
    {Failure, Event(DayUnits + H(2)), Event(2 * DayUnits + H(13) + 1), Event(H(21))}

BuiltObserver(hz) ==
    [built |-> TRUE, pressure |-> 0, horizon |-> hz, lat |-> DefaultLatitude,
     lon |-> DefaultLongitude, date |-> <<>>]

Table(tab) == [mode |-> "table", k |-> 0, tab |-> tab]

InitSeries ==
    /\ pc = "call"
    /\ latitude = DefaultLatitude /\ longitude = PyFloat(DefaultLongitude)
    /\ year = DefaultYear
    /\ time_diff \in SeriesOffsets
    /\ observing_site = BuiltObserver(0)
    /\ \E n \in 1..MaxDays :
          /\ time_array = [j \in 1..n |-> DateKey(DefaultYear, 1, j)]
          /\ \E tab \in [1..n -> [rise : FreeOutcomes, set : FreeOutcomes]] :
                ephem = Table(tab)
    /\ call = 0
    /\ InitCommon

\* Lines 45-50: the entry of the call.
EnterStandalone ==
    /\ pc = "call"
    /\ \E b \in SeriesBodies : body' = b
    /\ midnight' = Midnight(time_diff)
    /\ noon' = Noon(time_diff)
    /\ body_rise_times' = <<>>
    /\ body_set_times' = <<>>
    /\ i' = 1
    /\ queries' = <<>>
    /\ pc' = "loop"
    /\ UNCHANGED <<latitude, longitude, year, time_diff, observing_site, horizon_writes,
                   count, month, cumulative_days, time_array, ephem, call, series, xlim,
                   x_inverted, saved>>

\* Lines 51-54: one iteration of the loop.
LoopIteration ==
    /\ pc = "loop"
    /\ i <= Len(time_array)
    /\ LET st == Iteration(Locals(observing_site, body_rise_times, body_set_times, queries),
                           i, call, body, noon, midnight)
       IN  /\ observing_site' = st.site
           /\ body_rise_times' = st.rise
           /\ body_set_times' = st.set
           /\ queries' = st.queries
    /\ i' = i + 1
    /\ UNCHANGED <<pc, latitude, longitude, year, time_diff, horizon_writes, count, month,
                   cumulative_days, time_array, ephem, call, body, midnight, noon, series,
                   xlim, x_inverted, saved>>

\* Line 57: the loop is over; both lists are returned as masked arrays.
ReturnGetPlanetTimes ==
    /\ pc = "loop"
    /\ i > Len(time_array)
    /\ series' = Append(series, Returned(body_rise_times, body_set_times, midnight))
    /\ pc' = "returned"
    /\ UNCHANGED <<latitude, longitude, year, time_diff, observing_site, horizon_writes,
                   count, month, cumulative_days, time_array, ephem, call, body, midnight,
                   noon, i, body_rise_times, body_set_times, queries, xlim, x_inverted,
                   saved>>

NextSeries ==
    \/ EnterStandalone
    \/ LoopIteration
    \/ ReturnGetPlanetTimes

SpecSeries == InitSeries /\ [][NextSeries]_vars

\* get_body_rise(planet, date, obs, ref) and get_body_set(planet, date, obs, ref)
\* called for one day with any reference ref and any raw result x.
References == H(-13)..H(25)
RawResults == {Failure} \cup {Event(d * DayUnits + t) : d \in {1, 31}, t \in 0..(DayUnits - 1)}

InitNorm ==
    /\ pc = "loop"
    /\ latitude = DefaultLatitude /\ longitude = PyFloat(DefaultLongitude)
    /\ year = DefaultYear
    /\ time_diff = 0
    /\ observing_site = BuiltObserver(0)
    /\ time_array = <<DateKey(DefaultYear, 1, 1)>>
    /\ \E r \in RawResults : ephem = Table(<<[rise |-> r, set |-> r]>>)
    /\ call = 0
    /\ horizon_writes = 0
    /\ count = 0 /\ month = 1 /\ cumulative_days = 0
    /\ body = "Sun" /\ midnight = 0 /\ noon \in References /\ i = 1
    /\ body_rise_times = <<>> /\ body_set_times = <<>>
    /\ queries = <<>> /\ series = <<>>
    /\ xlim = <<>> /\ x_inverted = FALSE /\ saved = FALSE

NextNorm ==
    \/ LoopIteration
    \/ ReturnGetPlanetTimes

SpecNorm == InitNorm /\ [][NextNorm]_vars

\* ------------------------------------------------------------ properties
TimeDiffComputed == pc \notin {"normalize", "validate", "time_diff", "ValueError"}
CalendarComplete == pc \in {"series", "loop", "twilight", "axes", "save", "done"}
\* A latitude outside [-90, 90] or a longitude outside [-180, 180].
OutOfBounds ==
    \/ latitude < -90 * Deg \/ latitude > 90 * Deg
    \/ longitude.v < -180 * Deg \/ longitude.v > 180 * Deg

\* The month lengths of a 365-day year.
FixedMonthLengths == <<31, 28, 31, 30, 31, 30, 31, 31, 30, 31, 30, 31>>

RECURSIVE DaysBefore(_)
DaysBefore(m) == IF m = 1 THEN 0 ELSE DaysBefore(m - 1) + FixedMonthLengths[m - 1]

MonthOfDay(j) == CHOOSE m \in 1..12 : DaysBefore(m) < j /\ j <= DaysBefore(m) + FixedMonthLengths[m]

\* C5: for every year, leap or not, the calendar loop ends with exactly 365
\* entries, entry j being the j-th day of a year of fixed month lengths: months
\* 1..12 in order, each with its days 1..length in order, none repeated or skipped.
C5_CalendarIsFixed365 ==
    (pc = "series" /\ call = 0) =>
        /\ Len(time_array) = 365
        /\ \A j \in 1..365 :
              time_array[j] = <<year, MonthOfDay(j), j - DaysBefore(MonthOfDay(j))>>

C5_Witness ==
    /\ pc = "series" /\ call = 0
    /\ year = DefaultYear - 1
    /\ Len(time_array) = 365
    /\ time_array[59] = <<DefaultYear - 1, 2, 28>>
    /\ time_array[60] = <<DefaultYear - 1, 3, 1>>
    /\ time_array[365] = <<DefaultYear - 1, 12, 31>>

\* C4 as stated: for every valid longitude the offset is floor(longitude / 15),
\* and for the default longitude it is -6 with local midnight at 6 h UTC.
C4_OffsetIsFloor ==
    TimeDiffComputed =>
        /\ 15 * Deg * time_diff <= longitude.v
        /\ longitude.v < 15 * Deg * (time_diff + 1)
        /\ (longitude = PyFloat(DefaultLongitude) => time_diff = -6)

\* C4 amended: the offset is int(longitude / 15).  For a floating-point longitude
\* the quotient is truncated toward zero; for a longitude written as an int,
\* Python 2 divides with floor.  For the default longitude the offset is -5 and
\* local midnight is at 5 h UTC.
C4_OffsetIsIntOfQuotient ==
    TimeDiffComputed =>
        /\ (longitude.isInt \/ longitude.v >= 0) =>
              /\ 15 * Deg * time_diff <= longitude.v
              /\ longitude.v < 15 * Deg * (time_diff + 1)
        /\ (~longitude.isInt /\ longitude.v < 0) =>
              /\ 15 * Deg * (time_diff - 1) < longitude.v
              /\ longitude.v <= 15 * Deg * time_diff
        /\ (longitude = PyFloat(DefaultLongitude) =>
              /\ time_diff = -5
              /\ (call > 0 => midnight = H(5)))

C4_Witness ==
    /\ call = 1
    /\ longitude = PyFloat(DefaultLongitude)
    /\ time_diff = -5
    /\ midnight = H(5)

C8_HorizonChangedOnceAfterOrdinary ==
    /\ horizon_writes <= 1
    /\ (pc = "done" => horizon_writes = 1)
    /\ observing_site.horizon \in {0, -18}
    /\ (observing_site.horizon = -18 <=> horizon_writes = 1)
    /\ (horizon_writes = 1 => Len(series) >= 8)
    /\ \A n \in 1..Len(queries) :
          LET q == queries[n]
          IN  /\ q.call \in 1..8 =>
                    /\ q.horizon = 0
                    /\ q.body = <<"Sun", "Mercury", "Venus", "Mars", "Jupiter", "Saturn",
                                  "Uranus", "Neptune">>[q.call]
              /\ q.horizon = -18 => q.body = "Sun"
              /\ q.horizon # 0 => q.call = 9
              /\ q.date = time_array[q.index]
              /\ q.date = q.time

C8_Witness ==
    /\ pc = "axes"
    /\ horizon_writes = 1
    /\ Len(queries) = 2 * 365
    /\ \A n \in 1..Len(queries) :
          /\ queries[n].horizon = -18
          /\ queries[n].body = "Sun"
          /\ queries[n].date = time_array[queries[n].index]

\* The sample the latest loop iteration appended to a list.
Latest(list) == list[Len(list)]

\* C3 as stated: the set normalizer is handed local midnight, -offset, as its
\* reference, so every set sample is at most -offset.
C3_SetAgainstMidnight ==
    call > 0 =>
        /\ SetReference(noon, midnight) = H(-time_diff)
        /\ \A j \in 1..Len(body_set_times) :
              body_set_times[j] # None => body_set_times[j][1] <= H(-time_diff)

\* C3 amended: set events are normalized against the same reference as rise
\* events, local noon (-offset + 12) mod 24, so every set sample h satisfies
\* h <= noon and h > noon - 24.
C3_SetAgainstNoon ==
    call > 0 =>
        /\ SetReference(noon, midnight) = H((-time_diff + 12) % 24)
        /\ RiseReference(noon, midnight) = H((-time_diff + 12) % 24)
        /\ \A j \in 1..Len(body_set_times) :
              body_set_times[j] # None =>
                  /\ body_set_times[j][1] <= H((-time_diff + 12) % 24)
                  /\ body_set_times[j][1] > H((-time_diff + 12) % 24) - H(24)

C3_Witness ==
    /\ call = 1
    /\ \E j \in 1..Len(body_set_times) :
          /\ body_set_times[j] # None
          /\ body_set_times[j][1] > H(-time_diff)
          /\ body_set_times[j][1] = H((-time_diff + 12) % 24)

\* The call whose arrays were returned last, while its lists are still in place.
JustReturned == series # <<>> /\ pc # "loop" /\ Len(series) = call

Suppressed(a, j) == a.mask[j]

\* A returned array suppresses exactly the samples outside [lo, hi] and keeps
\* every entry of the list it was made from at its index.
MaskedExactlyOutside(a, list, lo, hi) ==
    /\ a.data = list
    /\ Len(a.mask) = Len(list)
    /\ \A j \in 1..Len(list) :
          list[j] # None => (Suppressed(a, j) <=> (list[j][1] < lo \/ list[j][1] > hi))

\* C6: get_planet_times suppresses a sample exactly when it lies outside the closed
\* interval [-offset - 10, -offset + 10], the bounds being passed as (midnight + 10,
\* midnight - 10); a suppressed sample stays at its index.
C6_WindowMask ==
    JustReturned =>
        /\ MaskedExactlyOutside(Latest(series).rise, body_rise_times,
                                H(-time_diff - 10), H(-time_diff + 10))
        /\ MaskedExactlyOutside(Latest(series).set, body_set_times,
                                H(-time_diff - 10), H(-time_diff + 10))

C6_Witness ==
    /\ JustReturned /\ call = 1
    /\ \E j \in 1..Len(time_array) :
          /\ Latest(series).rise.data[j] = Some(H(-time_diff + 10))
          /\ ~Latest(series).rise.mask[j]
    /\ \E j \in 1..Len(time_array) :
          /\ Latest(series).rise.data[j] = Some(H(-time_diff - 10))
          /\ ~Latest(series).rise.mask[j]
    /\ \E j \in 1..Len(time_array) :
          /\ Latest(series).rise.data[j] = Some(H(-time_diff + 10) + 1)
          /\ Latest(series).rise.mask[j]

\* A UTC hour of day within 10 hours of local midnight modulo 24.
NearMidnight(h) ==
    \E k \in -2..2 : /\ h + k * H(24) >= H(-time_diff - 10)
                     /\ h + k * H(24) <= H(-time_diff + 10)

KeepsNearMidnight(a) ==
    \A j \in 1..Len(a.data) :
        (a.data[j] # None /\ NearMidnight(a.data[j][1])) => ~a.mask[j]

\* C9: for every valid longitude the offset lies in [-11, 12], noon is midnight +
\* 12 without a wrap, and a rise or set whose UTC hour is within 10 hours of local
\* midnight modulo 24 yields a sample that is not masked.
C9_WindowInsideNormalizationRange ==
    /\ TimeDiffComputed => time_diff \in -11..12
    /\ call > 0 => noon = midnight + H(12)
    /\ (JustReturned /\ call > 0) =>
          KeepsNearMidnight(Latest(series).rise) /\ KeepsNearMidnight(Latest(series).set)

\* C10: for every valid longitude the axis is inverted exactly when the limits
\* were set in descending order, so the final x-axis runs increasing from
\* -time_diff - 10 to -time_diff + 10.
C10_AxisIncreasing ==
    pc \in {"save", "done"} =>
        /\ (x_inverted <=> XLimits(time_diff)[1] > XLimits(time_diff)[2])
        /\ xlim = <<-time_diff - 10, -time_diff + 10>>

\* C1: for every body and every pattern of outcomes, each returned series has as
\* many entries as the day sequence, entry j being the sample of day j: absent
\* where the query of day j failed, otherwise that day's hour of day; a masked
\* sample stays at its index.
SampleOfDay(a, j, result) ==
    /\ ~result.ok => a.data[j] = None
    /\ result.ok =>
          /\ a.data[j] # None
          /\ (a.data[j][1] - result.x) % DayUnits = 0

C1_SeriesAlignedWithDays ==
    pc = "returned" =>
        /\ Len(series) = 1
        /\ \A a \in {series[1].rise, series[1].set} :
              Len(a.data) = Len(time_array) /\ Len(a.mask) = Len(time_array)
        /\ \A j \in 1..Len(time_array) :
              /\ SampleOfDay(series[1].rise, j, ephem.tab[j].rise)
              /\ SampleOfDay(series[1].set, j, ephem.tab[j].set)

C1_Witness ==
    /\ pc = "returned"
    /\ Len(time_array) >= 2
    /\ ~ephem.tab[1].rise.ok /\ series[1].rise.data[1] = None
    /\ ephem.tab[2].rise.ok /\ series[1].rise.data[2] # None /\ series[1].rise.mask[2]
    /\ ephem.tab[1].set.ok /\ ~series[1].set.mask[1]
    /\ ~ephem.tab[2].set.ok /\ series[1].set.data[2] = None

InReferenceWindow(sample, ref) ==
    sample # None => (sample[1] <= ref /\ sample[1] > ref - H(24))

\* C2 as stated: for any raw input and any reference ref, the hour h a normalizer
\* returns satisfies h <= ref and h > ref - 24.
C2_BoundForAnyReference ==
    (pc = "loop" /\ body_rise_times # <<>>) =>
        /\ InReferenceWindow(Latest(body_rise_times), noon)
        /\ InReferenceWindow(Latest(body_set_times), noon)

\* C2 amended: for any raw input and any reference ref with 0 <= ref < 24 (every
\* noon reference (-offset + 12) mod 24 is one), the hour h a normalizer returns
\* satisfies h <= ref and h > ref - 24.
C2_BoundForReferenceInDay ==
    (pc = "loop" /\ body_rise_times # <<>> /\ noon >= 0 /\ noon < H(24)) =>
        /\ InReferenceWindow(Latest(body_rise_times), noon)
        /\ InReferenceWindow(Latest(body_set_times), noon)

C2_Witness ==
    /\ pc = "loop" /\ body_rise_times # <<>>
    /\ noon = H(17)
    /\ Latest(body_rise_times) = Some(H(17) + 1 - H(24))
    /\ Latest(body_set_times) = Some(H(17) + 1 - H(24))

====
